---- MODULE Spec2Model ----
(***************************************************************************)
(* VGA text-mode writer of os-rs (src/src/vga_buffer.rs).                  *)
(*                                                                         *)
(* The Writer owns an 80 x 25 grid of ScreenChar cells.  Output goes to    *)
(* the bottom row; a full row or a newline scrolls the grid up by one row. *)
(* The Writer methods are operators on a record `self`; the actions of     *)
(* Spec call them on the state of the one global WRITER.                   *)
(***************************************************************************)
EXTENDS Integers, Sequences, FiniteSets, TLC

\* ------------------------------------------------------------------------
\* Program constants
\* ------------------------------------------------------------------------
BUFFER_WIDTH == 80
BUFFER_HEIGHT == 25

\* b'\n', b' ', and the substitution code of write_string
NEWLINE == 10
SPACE == 32
PLACEHOLDER == 254
PRINTABLE_LO == 32
PRINTABLE_HI == 126

\* Color::Yellow = 14, Color::Black = 0
Yellow == 14
Black == 0

\* ------------------------------------------------------------------------
\* Bounds of the exploration
\* ------------------------------------------------------------------------
\* number of Writer operations explored from the initial state
MaxOps == 2
\* longest run of consecutive newline writes that is followed
MaxNewlines == 26

Rows == 0..(BUFFER_HEIGHT - 1)
Cols == 0..(BUFFER_WIDTH - 1)

\* bit i of the 8-bit value x
Bit(x, i) == (x \div (2 ^ i)) % 2

\* x | y on u8
BitOr8(x, y) ==
    LET RECURSIVE or_from(_)
        or_from(i) ==
            IF i > 7 THEN 0
            ELSE (IF Bit(x, i) = 1 \/ Bit(y, i) = 1 THEN 2 ^ i ELSE 0) + or_from(i + 1)
    IN  or_from(0)

\* x << n on u8 (bits shifted out are dropped)
Shl8(x, n) == (x * (2 ^ n)) % 256

\* ColorCode::new: (background as u8) << 4 | (foreground as u8)
\* Variant of ColorCode::new with the two colours in each other's place.
ColorCode_new_swapped(foreground, background) ==
    BitOr8(Shl8(foreground, 4), background)

ColorCode_new(foreground, background) == BitOr8(Shl8(background, 4), foreground)

\* struct ScreenChar
ScreenChar(ascii_character, color_code) ==
    [ascii_character |-> ascii_character, color_code |-> color_code]

\* ------------------------------------------------------------------------
\* Volatile cell access with Rust's checked array indexing: an index outside
\* [[_; BUFFER_WIDTH]; BUFFER_HEIGHT] panics, and a panicked Writer performs
\* no further step.
\* ------------------------------------------------------------------------
InRange(row, col) == row \in Rows /\ col \in Cols

\* self.buffer.chars[row][col].write(sc)
chars_write(self, row, col, sc) ==
    IF self.panicked THEN self
    ELSE IF ~InRange(row, col) THEN [self EXCEPT !.panicked = TRUE]
    ELSE [self EXCEPT !.buffer[row][col] = sc]

\* ------------------------------------------------------------------------
\* impl Writer
\* ------------------------------------------------------------------------
\* fn clear_row: `for col in 0..BUFFER_WIDTH { chars[row][col].write(blank) }`
\* Variant of clear_row whose loop stops one column short of the row's end.
clear_row_short(self, row) ==
    LET blank == ScreenChar(SPACE, self.color_code)
    IN  IF self.panicked THEN self
        ELSE IF \E col \in 0..(BUFFER_WIDTH - 2) : ~InRange(row, col)
        THEN [self EXCEPT !.panicked = TRUE]
        ELSE [self EXCEPT !.buffer[row] =
                [col \in 0..(BUFFER_WIDTH - 1) |->
                    IF col < BUFFER_WIDTH - 1 THEN blank ELSE self.buffer[row][col]]]

clear_row(self, row) ==
    LET blank == ScreenChar(SPACE, self.color_code)
    IN  IF self.panicked THEN self
        ELSE IF \E col \in 0..(BUFFER_WIDTH - 1) : ~InRange(row, col)
        THEN [self EXCEPT !.panicked = TRUE]
        ELSE [self EXCEPT !.buffer[row] = [col \in 0..(BUFFER_WIDTH - 1) |-> blank]]

\* new_line's inner loop for one row:
\* `for col in 0..BUFFER_WIDTH { chars[row - 1][col].write(chars[row][col].read()) }`
copy_row(self, row) ==
    IF self.panicked THEN self
    ELSE IF \E col \in 0..(BUFFER_WIDTH - 1) :
                ~InRange(row, col) \/ ~InRange(row - 1, col)
    THEN [self EXCEPT !.panicked = TRUE]
    ELSE [self EXCEPT !.buffer[row - 1] =
                [col \in 0..(BUFFER_WIDTH - 1) |-> self.buffer[row][col]]]

\* the row loop run from the bottom row up to `row`
copy_rows_bottom_up(self, row) ==
    LET RECURSIVE down_from(_, _)
        down_from(w, r) ==
            IF w.panicked \/ r < row THEN w
            ELSE down_from(copy_row(w, r), r - 1)
    IN  down_from(self, BUFFER_HEIGHT - 1)

\* new_line's outer loop `for row in 1..BUFFER_HEIGHT`, from row `row` on:
\* the rows are copied in place, one after the other, in increasing order
RECURSIVE copy_rows_from(_, _)
copy_rows_from(self, row) ==
    IF self.panicked \/ row >= BUFFER_HEIGHT THEN self
    ELSE copy_rows_from(copy_row(self, row), row + 1)

\* new_line without the call of clear_row
new_line_no_clear(self) ==
    LET entered == [self EXCEPT !.scrolls = @ + 1]
        shifted == copy_rows_from(entered, 1)
    IN  IF shifted.panicked THEN shifted
        ELSE [shifted EXCEPT !.column_position = 0]

\* pub fn new_line (scrolls counts the calls made by the running operation)
new_line(self) ==
    LET entered == [self EXCEPT !.scrolls = @ + 1]
        shifted == copy_rows_from(entered, 1)
        cleared == clear_row(shifted, BUFFER_HEIGHT - 1)
    IN  IF cleared.panicked THEN cleared
        ELSE [cleared EXCEPT !.column_position = 0]

\* write_byte with one change to its non-newline arm: the wrap test (`ge`
\* for >=, else >), the row written, the advance of column_position, and
\* whether a row that has just become full is scrolled at once
write_byte_variant(self, byte, ge, row, advance, eager) ==
    IF self.panicked THEN self
    ELSE IF byte = NEWLINE THEN new_line(self)
    ELSE LET full == IF ge THEN self.column_position >= BUFFER_WIDTH
                     ELSE self.column_position > BUFFER_WIDTH
             wrapped == IF full THEN new_line(self) ELSE self
             col == wrapped.column_position
             written == chars_write(wrapped, row, col,
                                    ScreenChar(byte, wrapped.color_code))
             moved == IF written.panicked THEN written
                      ELSE [written EXCEPT !.column_position = @ + advance]
         IN  IF eager /\ ~moved.panicked /\ moved.column_position >= BUFFER_WIDTH
             THEN new_line(moved) ELSE moved

\* `>` for `>=` in the wrap test
write_byte_gt(self, byte) ==
    write_byte_variant(self, byte, FALSE, BUFFER_HEIGHT - 1, 1, FALSE)

\* the top row written instead of the bottom row
write_byte_top_row(self, byte) == write_byte_variant(self, byte, TRUE, 0, 1, FALSE)

\* column_position not advanced
write_byte_no_advance(self, byte) ==
    write_byte_variant(self, byte, TRUE, BUFFER_HEIGHT - 1, 0, FALSE)

\* `>` for `>=` in the wrap test, with a write that skips a column outside the
\* row instead of stopping the Writer
write_byte_gt_skipping(self, byte) ==
    IF self.panicked THEN self
    ELSE IF byte = NEWLINE THEN new_line(self)
    ELSE LET wrapped == IF self.column_position > BUFFER_WIDTH
                        THEN new_line(self) ELSE self
             row == BUFFER_HEIGHT - 1
             col == wrapped.column_position
             written == IF InRange(row, col)
                        THEN chars_write(wrapped, row, col,
                                         ScreenChar(byte, wrapped.color_code))
                        ELSE wrapped
         IN  [written EXCEPT !.column_position = @ + 1]

\* the scroll done as soon as the row is full, not before the next byte
write_byte_eager_wrap(self, byte) ==
    write_byte_variant(self, byte, TRUE, BUFFER_HEIGHT - 1, 1, TRUE)

\* the wrap test made before the match on the byte, so that it applies to a
\* newline as well
write_byte_wrap_before_match(self, byte) ==
    IF self.panicked THEN self
    ELSE LET wrapped == IF self.column_position >= BUFFER_WIDTH
                        THEN new_line(self) ELSE self
         IN  IF byte = NEWLINE THEN new_line(wrapped)
             ELSE write_byte_variant(wrapped, byte, TRUE, BUFFER_HEIGHT - 1, 1, FALSE)

\* pub fn write_byte
write_byte(self, byte) ==
    IF self.panicked THEN self
    ELSE IF byte = NEWLINE THEN new_line(self)
    ELSE LET wrapped == IF self.column_position >= BUFFER_WIDTH
                        THEN new_line(self) ELSE self
             row == BUFFER_HEIGHT - 1
             col == wrapped.column_position
             written == chars_write(wrapped, row, col,
                                    ScreenChar(byte, wrapped.color_code))
         IN  IF written.panicked THEN written
             ELSE [written EXCEPT !.column_position = @ + 1]

\* the printable range taken as 0x20..=0x7f
forward_with_del(byte) ==
    IF (byte >= PRINTABLE_LO /\ byte <= PRINTABLE_HI + 1) \/ byte = NEWLINE
    THEN byte ELSE PLACEHOLDER

\* the match of write_string: the byte handed to write_byte for input `byte`
forward(byte) ==
    IF (byte >= PRINTABLE_LO /\ byte <= PRINTABLE_HI) \/ byte = NEWLINE
    THEN byte ELSE PLACEHOLDER

\* one iteration of write_string's loop, for the byte s[i]
write_string_byte(self, s, i) ==
    IF self.panicked THEN self
    ELSE write_byte([self EXCEPT !.forwarded = Append(@, forward(s[i]))],
                    forward(s[i]))

\* write_string's loop `for byte in s.bytes()` over s[lo..hi], in order
\* (the range is halved only to keep the evaluation shallow)
RECURSIVE write_string_range(_, _, _, _)
write_string_range(self, s, lo, hi) ==
    IF self.panicked \/ lo > hi THEN self
    ELSE IF lo = hi THEN write_string_byte(self, s, lo)
    ELSE write_string_range(
            write_string_range(self, s, lo, (lo + hi) \div 2),
            s, ((lo + hi) \div 2) + 1, hi)

\* Variant of write_string that settles a pending wrap on entry, before it
\* looks at the string.
write_string_wrap_first(self, s) ==
    write_string_range(
        IF self.column_position >= BUFFER_WIDTH THEN new_line(self) ELSE self,
        s, 1, Len(s))

\* pub fn write_string
write_string(self, s) == write_string_range(self, s, 1, Len(s))

\* ------------------------------------------------------------------------
\* State: the fields of the global WRITER, and the record of the last call
\* ------------------------------------------------------------------------
VARIABLES
    column_position,  \* Writer.column_position
    color_code,       \* Writer.color_code
    buffer,           \* Writer.buffer: the grid at 0xb8000
    panicked,         \* an index check has failed
    scrolls,          \* new_line calls made by the last operation
    forwarded,        \* bytes write_string handed to write_byte in the last operation
    op,               \* the last operation and its argument
    old,              \* the Writer's fields before the last operation
    nops,             \* operations performed so far
    nlrun,            \* newline writes since the last write of a non-newline byte
    once,             \* state of the lazy_static cell holding WRITER
    locked,           \* the flag of the spin::Mutex around the Writer
    pc,               \* where each caller of _print is
    loc,              \* each caller's arguments and local variables
    prints,           \* _print calls each caller has completed
    irq_active,       \* an interrupt handler is running on the processor
    printed,          \* the texts printed, in the order their callers took the lock
    scrolled,         \* new_line has run since the Writer was constructed
    start_pc          \* byte stores _start has made

writer_vars == <<column_position, color_code, buffer, panicked>>

call_vars == <<scrolls, forwarded, op, old, nops, nlrun>>

print_vars == <<once, locked, pc, loc, prints, irq_active>>

\* what is recorded about the run, and the position of _start
run_vars == <<printed, scrolled, start_pc>>

vars == <<writer_vars, call_vars, print_vars, run_vars>>

\* the two contexts that call _print
Callers == {1, 2}

NoLocals == [job |-> <<>>, f |-> 0, i |-> 0, byte |-> 0, row |-> 0, col |-> 0,
             ret |-> "idle", res |-> "Ok"]

\* the Writer as the methods see it, at the start of an operation
Self ==
    [column_position |-> column_position, color_code |-> color_code,
     buffer |-> buffer, panicked |-> panicked, scrolls |-> 0, forwarded |-> <<>>]

\* ------------------------------------------------------------------------
\* Contents of the display memory when the Writer is constructed.  The
\* Writer does not initialise the grid, so it starts with whatever is there.
\* ------------------------------------------------------------------------
\* static HELLO: &[u8] = b"Hello World!"
HELLO == <<72, 101, 108, 108, 111, 32, 87, 111, 114, 108, 100, 33>>

\* the grid as _start leaves it: HELLO in the first cells with attribute 0xb
BootBuffer ==
    [r \in Rows |-> [c \in Cols |->
        IF r = 0 /\ c < Len(HELLO) THEN ScreenChar(HELLO[c + 1], 11)
        ELSE ScreenChar(0, 0)]]

\* a grid in which each cell differs from the cells around it
PatternBuffer ==
    [r \in Rows |-> [c \in Cols |->
        ScreenChar((r * BUFFER_WIDTH + c) % 256, (r + 3 * c) % 256)]]

InitBuffers == {BootBuffer, PatternBuffer}

\* no call made yet
NoCalls ==
    /\ scrolls = 0
    /\ forwarded = <<>>
    /\ op = [name |-> "init", byte |-> 0, s |-> <<>>]
    /\ old = [column_position |-> 0, color_code |-> color_code, buffer |-> buffer]
    /\ nops = 0
    /\ nlrun = 0

\* lazy_static! WRITER, constructed; nobody is in _print
Init ==
    /\ column_position = 0
    /\ color_code = ColorCode_new(Yellow, Black)
    /\ buffer \in InitBuffers
    /\ panicked = FALSE
    /\ NoCalls
    /\ once = "COMPLETE"
    /\ locked = FALSE
    /\ pc = [p \in Callers |-> "idle"]
    /\ loc = [p \in Callers |-> NoLocals]
    /\ prints = [p \in Callers |-> 0]
    /\ irq_active = FALSE
    /\ printed = <<>>
    /\ scrolled = FALSE
    /\ start_pc = 0

\* ------------------------------------------------------------------------
\* Inputs
\* ------------------------------------------------------------------------
\* n bytes of printable ASCII, starting at `first` and cycling through the range
Printable(n, first) ==
    [i \in 1..n |-> PRINTABLE_LO
        + ((first - PRINTABLE_LO + i - 1) % (PRINTABLE_HI - PRINTABLE_LO + 1))]

\* every byte value once, in order
AllBytes == [i \in 1..256 |-> i - 1]

Newlines(n) == [i \in 1..n |-> NEWLINE]

ByteInputs == {NEWLINE, 65, 0}

StringInputs ==
    { <<>>, HELLO, Printable(BUFFER_WIDTH - 1, 65), Printable(BUFFER_WIDTH, 48),
      Printable(BUFFER_WIDTH + 1, 97), AllBytes, Newlines(1),
      <<72, 105, NEWLINE, 33>>, Newlines(3),
      Printable(BUFFER_WIDTH, 48) \o <<NEWLINE>> }

\* number of newline bytes at the end of s
RECURSIVE TrailingNewlines(_)
TrailingNewlines(s) ==
    IF s = <<>> \/ s[Len(s)] # NEWLINE THEN 0
    ELSE 1 + TrailingNewlines(SubSeq(s, 1, Len(s) - 1))

\* the state after a call that turned Self into `result`
Return(result, name, byte, s, run) ==
    /\ column_position' = result.column_position
    /\ color_code' = result.color_code
    /\ buffer' = result.buffer
    /\ panicked' = result.panicked
    /\ scrolls' = result.scrolls
    /\ forwarded' = result.forwarded
    /\ op' = [name |-> name, byte |-> byte, s |-> s]
    /\ old' = [column_position |-> column_position, color_code |-> color_code,
               buffer |-> buffer]
    /\ nops' = IF nops < MaxOps THEN nops + 1 ELSE nops
    /\ nlrun' = run
    /\ scrolled' = (scrolled \/ result.scrolls > 0)
    /\ UNCHANGED <<print_vars, printed, start_pc>>

\* ------------------------------------------------------------------------
\* Actions: the public methods of Writer, called on the global WRITER
\* ------------------------------------------------------------------------
WriteByte(byte) ==
    /\ ~panicked
    /\ nops < MaxOps
    /\ Return(write_byte(Self, byte), "write_byte", byte, <<>>,
              IF byte = NEWLINE THEN nlrun + 1 ELSE 0)

\* a run of new_line calls is followed up to MaxNewlines
NewLine ==
    /\ ~panicked
    /\ \/ nops < MaxOps
       \/ op.name = "new_line" /\ nlrun < MaxNewlines
    /\ Return(new_line(Self), "new_line", 0, <<>>, nlrun + 1)

WriteString(s) ==
    /\ ~panicked
    /\ nops < MaxOps
    /\ Return(write_string(Self, s), "write_string", 0, s,
              IF TrailingNewlines(s) = Len(s) THEN nlrun + Len(s)
              ELSE TrailingNewlines(s))

Next ==
    \/ \E byte \in ByteInputs : WriteByte(byte)
    \/ NewLine
    \/ \E s \in StringInputs : WriteString(s)

Spec == Init /\ [][Next]_vars

\* ------------------------------------------------------------------------
\* The print path: _print is `WRITER.lock().write_fmt(args).unwrap()`.
\* A caller dereferences WRITER (constructing it on first use), spins on the
\* lock, runs write_string on each fragment of the formatted text while it
\* holds the guard, and drops the guard when the statement ends.  The steps
\* of a caller are the shared-memory accesses of that code, one at a time;
\* a panic stops the machine (the panic handler is `loop {}`).
\* ------------------------------------------------------------------------
\* _print calls made by each caller
MaxPrints == 1

\* formatted texts, as the fragments write_fmt passes to write_str:
\* print!("ab"), println!("Hi") and print!("\u{7f}")
PrintJobs == { << <<97, 98>> >>, << <<72, 105>>, <<NEWLINE>> >>, << <<127>> >> }

\* the caller holds the MutexGuard
Holding(p) ==
    pc[p] \in {"next_byte", "write_byte", "scroll", "clear", "store", "advance", "unlock"}

\* print!(..) at a call site: _print(args) is entered
Call(p, job) ==
    /\ pc[p] = "idle"
    /\ prints[p] < MaxPrints
    /\ pc' = [pc EXCEPT ![p] = "deref"]
    /\ loc' = [loc EXCEPT ![p] = [NoLocals EXCEPT !.job = job]]
    /\ UNCHANGED <<writer_vars, call_vars, once, locked, prints, irq_active>>
    /\ UNCHANGED run_vars

\* WRITER is dereferenced: the first caller runs the initialiser, a caller
\* that finds it running waits, the others go on with the reference
\* Variant of Deref without the atomic test of the cell: a caller that finds
\* the Writer not yet complete goes on to construct it, whether or not
\* another caller is already doing so.
DerefRacy(p) ==
    /\ pc[p] = "deref"
    /\ ~panicked
    /\ IF once # "COMPLETE"
       THEN once' = "RUNNING" /\ pc' = [pc EXCEPT ![p] = "construct"]
       ELSE once' = once /\ pc' = [pc EXCEPT ![p] = "lock"]
    /\ UNCHANGED <<writer_vars, call_vars, locked, loc, prints, irq_active>>
    /\ UNCHANGED run_vars

Deref(p) ==
    /\ pc[p] = "deref"
    /\ ~panicked
    /\ once # "RUNNING"
    /\ IF once = "INCOMPLETE"
       THEN once' = "RUNNING" /\ pc' = [pc EXCEPT ![p] = "construct"]
       ELSE once' = once /\ pc' = [pc EXCEPT ![p] = "lock"]
    /\ UNCHANGED <<writer_vars, call_vars, locked, loc, prints, irq_active>>
    /\ UNCHANGED run_vars

\* the initialiser of WRITER: Mutex::new(Writer { .. })
Construct(p) ==
    /\ pc[p] = "construct"
    /\ ~panicked
    /\ column_position' = 0
    /\ color_code' = ColorCode_new(Yellow, Black)
    /\ once' = "COMPLETE"
    /\ pc' = [pc EXCEPT ![p] = "lock"]
    /\ UNCHANGED <<buffer, panicked, call_vars, locked, loc, prints, irq_active>>
    /\ UNCHANGED run_vars

\* entering the Writer without testing the lock flag
LockUntested(p) ==
    /\ pc[p] = "lock"
    /\ ~panicked
    /\ locked' = TRUE
    /\ pc' = [pc EXCEPT ![p] = "next_byte"]
    /\ loc' = [loc EXCEPT ![p].f = 1, ![p].i = 1]
    /\ UNCHANGED <<writer_vars, call_vars, once, prints, irq_active>>
    /\ printed' = Append(printed, loc[p].job)
    /\ UNCHANGED <<scrolled, start_pc>>

\* WRITER.lock(): the caller spins until it finds the flag clear and sets it
Lock(p) ==
    /\ pc[p] = "lock"
    /\ ~panicked
    /\ ~locked
    /\ locked' = TRUE
    /\ pc' = [pc EXCEPT ![p] = "next_byte"]
    /\ loc' = [loc EXCEPT ![p].f = 1, ![p].i = 1]
    /\ UNCHANGED <<writer_vars, call_vars, once, prints, irq_active>>
    /\ printed' = Append(printed, loc[p].job)
    /\ UNCHANGED <<scrolled, start_pc>>

\* head of the loops of write_fmt (over the fragments) and write_string (over
\* the bytes of a fragment): the next byte goes through the match
\* Variant of write_str's result that reports a byte write_string had to
\* replace as an error.
write_str_rejecting(s) ==
    IF \E i \in 1..Len(s) : forward(s[i]) # s[i] THEN "Err" ELSE "Ok"

\* What write_str returns once write_string has returned: Ok(()), whatever
\* the string.
write_str_result(s) == "Ok"

\* write_fmt hands the fragments to write_str one by one and stops with the
\* error of the first write_str that fails.
NextByte(p) ==
    /\ pc[p] = "next_byte"
    /\ ~panicked
    /\ LET l == loc[p]
       IN  IF l.f > Len(l.job)
           THEN /\ pc' = [pc EXCEPT ![p] = "unlock"]
                /\ loc' = loc
           ELSE IF l.i > Len(l.job[l.f])
           THEN IF write_str_result(l.job[l.f]) = "Ok"
                THEN /\ pc' = pc
                     /\ loc' = [loc EXCEPT ![p].f = l.f + 1, ![p].i = 1]
                ELSE /\ pc' = [pc EXCEPT ![p] = "unlock"]
                     /\ loc' = [loc EXCEPT ![p].res = write_str_result(l.job[l.f])]
           ELSE /\ pc' = [pc EXCEPT ![p] = "write_byte"]
                /\ loc' = [loc EXCEPT ![p].byte = forward(l.job[l.f][l.i])]
    /\ UNCHANGED <<writer_vars, call_vars, once, locked, prints, irq_active>>
    /\ UNCHANGED run_vars

\* write_byte: the match on the byte and the test of column_position
EnterWriteByte(p) ==
    /\ pc[p] = "write_byte"
    /\ ~panicked
    /\ IF loc[p].byte = NEWLINE
       THEN /\ pc' = [pc EXCEPT ![p] = "scroll"]
            /\ loc' = [loc EXCEPT ![p].row = 1, ![p].ret = "advance"]
       ELSE IF column_position >= BUFFER_WIDTH
       THEN /\ pc' = [pc EXCEPT ![p] = "scroll"]
            /\ loc' = [loc EXCEPT ![p].row = 1, ![p].ret = "store"]
       ELSE /\ pc' = [pc EXCEPT ![p] = "store"]
            /\ loc' = loc
    /\ UNCHANGED <<writer_vars, call_vars, once, locked, prints, irq_active>>
    /\ UNCHANGED run_vars

\* new_line: one row of the copy loop
ScrollRow(p) ==
    /\ pc[p] = "scroll"
    /\ ~panicked
    /\ LET w == copy_row(Self, loc[p].row)
       IN  /\ buffer' = w.buffer
           /\ panicked' = w.panicked
    /\ IF loc[p].row + 1 >= BUFFER_HEIGHT
       THEN pc' = [pc EXCEPT ![p] = "clear"]
       ELSE pc' = pc
    /\ loc' = [loc EXCEPT ![p].row = @ + 1]
    /\ UNCHANGED <<column_position, color_code, call_vars, once, locked, prints,
                   irq_active>>
    /\ UNCHANGED run_vars

\* new_line: clear_row(BUFFER_HEIGHT - 1) and column_position = 0; after a
\* newline byte write_byte is over, after a wrap it goes on to the write
ClearRow(p) ==
    /\ pc[p] = "clear"
    /\ ~panicked
    /\ LET w == clear_row(Self, BUFFER_HEIGHT - 1)
       IN  /\ buffer' = w.buffer
           /\ panicked' = w.panicked
    /\ column_position' = 0
    /\ IF loc[p].ret = "store"
       THEN /\ pc' = [pc EXCEPT ![p] = "store"]
            /\ loc' = loc
       ELSE /\ pc' = [pc EXCEPT ![p] = "next_byte"]
            /\ loc' = [loc EXCEPT ![p].i = @ + 1]
    /\ UNCHANGED <<color_code, call_vars, once, locked, prints, irq_active>>
    /\ scrolled' = TRUE
    /\ UNCHANGED <<printed, start_pc>>

\* write_byte: col = self.column_position; chars[row][col].write(..)
Store(p) ==
    /\ pc[p] = "store"
    /\ ~panicked
    /\ LET w == chars_write(Self, BUFFER_HEIGHT - 1, column_position,
                            ScreenChar(loc[p].byte, color_code))
       IN  /\ buffer' = w.buffer
           /\ panicked' = w.panicked
    /\ pc' = [pc EXCEPT ![p] = "advance"]
    /\ loc' = [loc EXCEPT ![p].col = column_position]
    /\ UNCHANGED <<column_position, color_code, call_vars, once, locked, prints,
                   irq_active>>
    /\ UNCHANGED run_vars

\* write_byte: self.column_position += 1
Advance(p) ==
    /\ pc[p] = "advance"
    /\ ~panicked
    /\ column_position' = column_position + 1
    /\ pc' = [pc EXCEPT ![p] = "next_byte"]
    /\ loc' = [loc EXCEPT ![p].i = @ + 1]
    /\ UNCHANGED <<color_code, buffer, panicked, call_vars, once, locked, prints,
                   irq_active>>
    /\ UNCHANGED run_vars

\* the guard is dropped at the end of the statement and _print returns
\* Variant of Unlock in which the guard is leaked instead of dropped, so the
\* flag stays set after the call returns.
UnlockKeepsFlag(p) ==
    /\ pc[p] = "unlock"
    /\ ~panicked
    /\ pc' = [pc EXCEPT ![p] = "idle"]
    /\ loc' = [loc EXCEPT ![p] = NoLocals]
    /\ prints' = [prints EXCEPT ![p] = @ + 1]
    /\ UNCHANGED <<writer_vars, call_vars, once, locked, irq_active>>
    /\ UNCHANGED run_vars

\* The end of the statement in _print: unwrap() of what write_fmt returned,
\* which panics on Err with the guard still alive, then the drop of the guard.
Unlock(p) ==
    /\ pc[p] = "unlock"
    /\ ~panicked
    /\ IF loc[p].res = "Ok"
       THEN /\ locked' = FALSE
            /\ pc' = [pc EXCEPT ![p] = "idle"]
            /\ loc' = [loc EXCEPT ![p] = NoLocals]
            /\ prints' = [prints EXCEPT ![p] = @ + 1]
            /\ panicked' = panicked
       ELSE /\ panicked' = TRUE
            /\ UNCHANGED <<locked, pc, loc, prints>>
    /\ UNCHANGED <<column_position, color_code, buffer, call_vars, once, irq_active>>
    /\ UNCHANGED run_vars

\* the program starts: WRITER is not constructed, the grid holds what it holds
InitPrint ==
    /\ column_position = 0
    /\ color_code = 0
    /\ buffer = PatternBuffer
    /\ panicked = FALSE
    /\ NoCalls
    /\ once = "INCOMPLETE"
    /\ locked = FALSE
    /\ pc = [p \in Callers |-> "idle"]
    /\ loc = [p \in Callers |-> NoLocals]
    /\ prints = [p \in Callers |-> 0]
    /\ irq_active = FALSE
    /\ printed = <<>>
    /\ scrolled = FALSE
    /\ start_pc = 0

\* callers that run concurrently: their steps interleave freely
NextPrint ==
    \/ \E p \in Callers : \E job \in PrintJobs : Call(p, job)
    \/ \E p \in Callers : Deref(p)
    \/ \E p \in Callers : Construct(p)
    \/ \E p \in Callers : Lock(p)
    \/ \E p \in Callers : NextByte(p)
    \/ \E p \in Callers : EnterWriteByte(p)
    \/ \E p \in Callers : ScrollRow(p)
    \/ \E p \in Callers : ClearRow(p)
    \/ \E p \in Callers : Store(p)
    \/ \E p \in Callers : Advance(p)
    \/ \E p \in Callers : Unlock(p)

SpecPrint == InitPrint /\ [][NextPrint]_vars

\* One step of caller p inside _print. A caller that has entered _print runs
\* on its own execution context and keeps executing: its next instruction is
\* taken whenever it stays possible. Entering _print (Call) is the caller's
\* choice and is not forced. The spin lock gives no fairness between
\* waiters, so the condition on Lock is weak fairness only.
Proceed(p) ==
    \/ Deref(p)
    \/ Construct(p)
    \/ Lock(p)
    \/ NextByte(p)
    \/ EnterWriteByte(p)
    \/ ScrollRow(p)
    \/ ClearRow(p)
    \/ Store(p)
    \/ Advance(p)
    \/ Unlock(p)

\* The text whose printing is followed under fair scheduling: two fragments,
\* the second a newline, so that a call stores, scrolls and clears.
LockJobs == { << <<72, 105>>, <<NEWLINE>> >> }

NextLock ==
    \/ \E p \in Callers : \E job \in LockJobs : Call(p, job)
    \/ \E p \in Callers : Deref(p)
    \/ \E p \in Callers : Construct(p)
    \/ \E p \in Callers : Lock(p)
    \/ \E p \in Callers : NextByte(p)
    \/ \E p \in Callers : EnterWriteByte(p)
    \/ \E p \in Callers : ScrollRow(p)
    \/ \E p \in Callers : ClearRow(p)
    \/ \E p \in Callers : Store(p)
    \/ \E p \in Callers : Advance(p)
    \/ \E p \in Callers : Unlock(p)

SpecPrintFair ==
    InitPrint /\ [][NextLock]_vars /\ \A p \in Callers : WF_vars(Proceed(p))

\* ------------------------------------------------------------------------
\* One processor: caller 1 is the normal execution, caller 2 an interrupt
\* handler that prints.  _print leaves interrupts enabled, so the handler can
\* start between any two steps of caller 1; caller 1 runs again only when
\* the handler has returned.
\* ------------------------------------------------------------------------
Normal == 1
Handler == 2

\* the interrupt arrives and its handler calls _print
Interrupt(job) ==
    /\ ~irq_active
    /\ ~panicked
    /\ pc[Handler] = "idle"
    /\ prints[Handler] < MaxPrints
    /\ irq_active' = TRUE
    /\ pc' = [pc EXCEPT ![Handler] = "deref"]
    /\ loc' = [loc EXCEPT ![Handler] = [NoLocals EXCEPT !.job = job]]
    /\ UNCHANGED <<writer_vars, call_vars, once, locked, prints>>
    /\ UNCHANGED run_vars

\* the handler's _print has returned: the interrupted code resumes
InterruptReturn ==
    /\ irq_active
    /\ pc[Handler] = "idle"
    /\ irq_active' = FALSE
    /\ UNCHANGED <<writer_vars, call_vars, once, locked, pc, loc, prints>>
    /\ UNCHANGED run_vars

\* the context the processor is executing
Running == IF irq_active THEN Handler ELSE Normal

NextIrq ==
    \/ ~irq_active /\ \E job \in PrintJobs : Call(Normal, job)
    \/ \E job \in PrintJobs : Interrupt(job)
    \/ InterruptReturn
    \/ Deref(Running)
    \/ Construct(Running)
    \/ Lock(Running)
    \/ NextByte(Running)
    \/ EnterWriteByte(Running)
    \/ ScrollRow(Running)
    \/ ClearRow(Running)
    \/ Store(Running)
    \/ Advance(Running)
    \/ Unlock(Running)

SpecIrq == InitPrint /\ [][NextIrq]_vars

\* ------------------------------------------------------------------------
\* Vocabulary of the properties
\* ------------------------------------------------------------------------
Blank(attribute) == ScreenChar(SPACE, attribute)

BlankRow(attribute) == [c \in Cols |-> Blank(attribute)]

\* the grid b shifted up by one row at once, with a blank bottom row
ShiftedUp(b, attribute) ==
    [r \in Rows |-> IF r < BUFFER_HEIGHT - 1 THEN b[r + 1] ELSE BlankRow(attribute)]

IsPrintable(b) == b >= PRINTABLE_LO /\ b <= PRINTABLE_HI

PrintableString(s) == \A i \in 1..Len(s) : IsPrintable(s[i])

\* position of the last newline in t, 0 when there is none
LastNewline(t) ==
    IF \E i \in 1..Len(t) : t[i] = NEWLINE
    THEN CHOOSE i \in 1..Len(t) :
            t[i] = NEWLINE /\ \A j \in (i + 1)..Len(t) : t[j] # NEWLINE
    ELSE 0

Min(a, b) == IF a <= b THEN a ELSE b

\* C1: after new_line, every cell of rows 0..23 holds what the cell below it
\* held before, row 24 is blank with the current attribute and the cursor is
\* at column 0: the in-place row-by-row copy equals a simultaneous shift.
C1_Scroll ==
    op.name = "new_line" =>
        /\ \A r \in 0..(BUFFER_HEIGHT - 2) : \A c \in Cols :
                buffer[r][c] = old.buffer[r + 1][c]
        /\ \A c \in Cols : buffer[BUFFER_HEIGHT - 1][c] = Blank(color_code)
        /\ column_position = 0
        /\ buffer = ShiftedUp(old.buffer, color_code)

C1_Witness ==
    /\ op.name = "new_line"
    /\ old.column_position > 0
    /\ old.buffer[BUFFER_HEIGHT - 1] # BlankRow(color_code)
    /\ \E r \in 1..(BUFFER_HEIGHT - 1) : old.buffer[r] # old.buffer[r - 1]
    /\ buffer[0] # old.buffer[0]

\* C2: write_byte(b), b not the newline: a full row is scrolled first, then
\* the cell {b, attribute} is written at (24, cursor) and the cursor moves on
\* by one; without a scroll exactly that one cell changes, and the attribute
\* is unchanged.
C2_WriteByte ==
    (op.name = "write_byte" /\ op.byte # NEWLINE) =>
        LET full == old.column_position >= BUFFER_WIDTH
            base == IF full THEN ShiftedUp(old.buffer, old.color_code)
                    ELSE old.buffer
            col  == IF full THEN 0 ELSE old.column_position
        IN  /\ scrolls = (IF full THEN 1 ELSE 0)
            /\ buffer[BUFFER_HEIGHT - 1][col] = ScreenChar(op.byte, old.color_code)
            /\ column_position = col + 1
            /\ \A r \in Rows : \A c \in Cols :
                    (r # BUFFER_HEIGHT - 1 \/ c # col) => buffer[r][c] = base[r][c]
            /\ color_code = old.color_code

C2_Witness ==
    /\ op.name = "write_byte"
    /\ op.byte # NEWLINE
    /\ old.column_position \in 1..(BUFFER_WIDTH - 1)
    /\ scrolls = 0
    /\ buffer # old.buffer

\* C3: no operation indexes the grid outside rows 0..24 and columns 0..79.
C3_IndexInRange == panicked = FALSE

C3_Witness ==
    /\ op.name = "write_byte"
    /\ op.byte # NEWLINE
    /\ old.column_position = BUFFER_WIDTH
    /\ scrolls = 1
    /\ column_position = 1

\* C4 as stated: between operations cursor_column is in [0, 80).
C4_CursorBelowWidth == column_position \in 0..(BUFFER_WIDTH - 1)

\* C4: between operations cursor_column is in [0, 80]; it is 80 when the
\* bottom row is full and the wrap is still pending.
C4_CursorUpToWidth == column_position \in 0..BUFFER_WIDTH

C4_Witness ==
    /\ column_position = BUFFER_WIDTH
    /\ op.name = "write_string"
    /\ Len(op.s) = BUFFER_WIDTH

\* C5: write_string of n <= 80 printable bytes at cursor 0 leaves the cursor
\* at n and the bytes, in order and with the attribute, in cells (24, 0..n-1);
\* no scroll happens and every other cell keeps its content.
C5_ShortString ==
    (/\ op.name = "write_string"
     /\ old.column_position = 0
     /\ Len(op.s) <= BUFFER_WIDTH
     /\ PrintableString(op.s)) =>
        /\ column_position = Len(op.s)
        /\ \A i \in 1..Len(op.s) :
                buffer[BUFFER_HEIGHT - 1][i - 1] = ScreenChar(op.s[i], color_code)
        /\ scrolls = 0
        /\ \A r \in Rows : \A c \in Cols :
                (r # BUFFER_HEIGHT - 1 \/ c >= Len(op.s)) =>
                    buffer[r][c] = old.buffer[r][c]

C5_Witness ==
    /\ op.name = "write_string"
    /\ op.s = HELLO
    /\ nops = 1
    /\ old.buffer \in InitBuffers
    /\ column_position = Len(HELLO)
    /\ buffer[BUFFER_HEIGHT - 1][Len(HELLO)] = old.buffer[BUFFER_HEIGHT - 1][Len(HELLO)]

\* C6: 80 printable bytes written from cursor 0 cause no scroll; the 81st
\* printable byte causes exactly one, before it is placed: the 80 bytes are
\* then in row 23, the 81st is at (24, 0), (24, 1..79) are blank, cursor 1.
C6_WrapBefore81st ==
    /\ (/\ op.name = "write_string"
        /\ old.column_position = 0
        /\ Len(op.s) = BUFFER_WIDTH
        /\ PrintableString(op.s)) =>
            (scrolls = 0 /\ column_position = BUFFER_WIDTH)
    /\ (/\ op.name = "write_string"
        /\ old.column_position = 0
        /\ Len(op.s) = BUFFER_WIDTH + 1
        /\ PrintableString(op.s)) =>
            /\ scrolls = 1
            /\ \A c \in Cols :
                    buffer[BUFFER_HEIGHT - 2][c] = ScreenChar(op.s[c + 1], color_code)
            /\ buffer[BUFFER_HEIGHT - 1][0] =
                    ScreenChar(op.s[BUFFER_WIDTH + 1], color_code)
            /\ \A c \in 1..(BUFFER_WIDTH - 1) :
                    buffer[BUFFER_HEIGHT - 1][c] = Blank(color_code)
            /\ column_position = 1
    /\ (/\ op.name = "write_byte"
        /\ IsPrintable(op.byte)
        /\ old.column_position = BUFFER_WIDTH) =>
            /\ scrolls = 1
            /\ buffer[BUFFER_HEIGHT - 2] = old.buffer[BUFFER_HEIGHT - 1]
            /\ buffer[BUFFER_HEIGHT - 1][0] = ScreenChar(op.byte, color_code)
            /\ \A c \in 1..(BUFFER_WIDTH - 1) :
                    buffer[BUFFER_HEIGHT - 1][c] = Blank(color_code)
            /\ column_position = 1

C6_Witness ==
    /\ op.name = "write_string"
    /\ old.column_position = 0
    /\ Len(op.s) = BUFFER_WIDTH + 1
    /\ PrintableString(op.s)
    /\ scrolls = 1
    /\ buffer[BUFFER_HEIGHT - 2] # old.buffer[BUFFER_HEIGHT - 2]

\* C7: write_string hands write_byte one byte per input byte, in order: the
\* byte itself when it is the newline or in [0x20, 0x7e], else 0xfe; so the
\* cells it leaves in the bottom row hold characters in [0x20, 0x7e] or 0xfe.
C7_Sanitised ==
    op.name = "write_string" =>
        LET t == forwarded
            n == Len(forwarded)
            k == Min(n - LastNewline(forwarded), column_position)
        IN  /\ n = Len(op.s)
            /\ \A i \in 1..n :
                    t[i] = IF op.s[i] = NEWLINE \/ (op.s[i] >= 32 /\ op.s[i] <= 126)
                           THEN op.s[i] ELSE 254
            /\ \A j \in 1..k :
                    /\ buffer[BUFFER_HEIGHT - 1][column_position - j] =
                            ScreenChar(t[n - j + 1], color_code)
                    /\ t[n - j + 1] \in (32..126) \cup {254}

C7_Witness ==
    /\ op.name = "write_string"
    /\ op.s = AllBytes
    /\ Len(forwarded) = 256
    /\ forwarded[1] = PLACEHOLDER
    /\ column_position > 0

\* C8: after k consecutive newline writes the bottom min(k, 25) rows are
\* blank with the current attribute, for every k: the blank rows of a run
\* stay blank, and from k = 25 on the whole grid is blank.
C8_NewlineRun ==
    \A r \in Rows :
        r >= BUFFER_HEIGHT - nlrun => buffer[r] = BlankRow(color_code)

C8_Witness ==
    /\ nlrun = BUFFER_HEIGHT
    /\ op.name = "new_line"
    /\ old.buffer[0] # BlankRow(color_code)
    /\ \A r \in Rows : buffer[r] = BlankRow(color_code)

\* at most one caller holds the guard, and only while the flag is set
C9_OneHolder ==
    /\ \A p \in Callers : \A q \in Callers :
            (Holding(p) /\ Holding(q)) => p = q
    /\ \A p \in Callers : Holding(p) => locked

\* a step that changes the grid or the cursor is a step of the caller that
\* holds the guard, taken while no other caller is inside the Writer
C9_OnlyHolderMutates ==
    (buffer' # buffer \/ column_position' # column_position) =>
        \E p \in Callers :
            /\ Holding(p)
            /\ locked
            /\ pc'[p] # pc[p] \/ loc'[p] # loc[p]
            /\ \A q \in Callers \ {p} :
                    ~Holding(q) /\ pc'[q] = pc[q] /\ loc'[q] = loc[q]

\* C9: under any interleaving of _print calls at most one caller is inside
\* the Writer's operations, and the grid and the cursor are changed only by
\* the caller that holds the lock: no caller's write falls into another
\* caller's write or scroll.
C9_Exclusion == [](C9_OneHolder) /\ [][C9_OnlyHolderMutates]_vars

C9_Witness ==
    \E p \in Callers : \E q \in Callers \ {p} :
        /\ pc[p] = "scroll"
        /\ loc[p].row > 1
        /\ pc[q] = "lock"
        /\ prints[q] = 0
        /\ locked
        /\ buffer # old.buffer

\* C10: an interrupt handler that calls _print while the interrupted code
\* holds the WRITER lock is never left spinning on that lock.
C10_HandlerNeverStuck ==
    (irq_active /\ pc[Handler] = "lock") => ~(locked /\ Holding(Normal))

\* ---------------------------------------------------------------------------
\* write_string alone, on printable strings of every kind of length: within a
\* row, a full row, one byte more, two full rows, one byte more, and one byte
\* more than the whole grid holds.
LongStringInputs ==
    { Printable(1, 65), HELLO, Printable(BUFFER_WIDTH, 48),
      Printable(BUFFER_WIDTH + 1, 97), Printable(2 * BUFFER_WIDTH, 33),
      Printable(2 * BUFFER_WIDTH + 1, 66),
      Printable(BUFFER_HEIGHT * BUFFER_WIDTH + 1, 67) }

NextLong == \E s \in LongStringInputs : WriteString(s)

SpecLong == Init /\ [][NextLong]_vars

\* ---------------------------------------------------------------------------
\* The Color enum: sixteen variants with the discriminants 0 .. 15.
Colors == 0 .. 15

\* A Writer is given the attribute ColorCode::new makes of a colour pair, as
\* the WRITER initialiser does with (Yellow, Black); it is given once, when
\* the Writer is made.
NewColorCode(foreground, background) ==
    /\ op.name = "init"
    /\ color_code' = ColorCode_new(foreground, background)
    /\ op' = [name |-> "ColorCode_new", byte |-> 0, s |-> <<foreground, background>>]
    /\ UNCHANGED <<column_position, buffer, panicked, scrolls, forwarded, old,
                   nops, nlrun, print_vars, run_vars>>

NextColor == \E foreground \in Colors : \E background \in Colors :
                 NewColorCode(foreground, background)

SpecColor == Init /\ [][NextColor]_vars

\* ---------------------------------------------------------------------------
\* The entry point. _start stores each byte of HELLO and the attribute 0xb
\* through a raw pointer to the display memory, two single-byte stores per
\* cell, then loops forever. Byte offset 2*i is the character of cell i and
\* 2*i + 1 its attribute; cell i is row i \div 80, column i % 80.
HELLO_ATTRIBUTE == 11

StartStore ==
    /\ start_pc < 2 * Len(HELLO)
    /\ LET i   == start_pc \div 2
           row == i \div BUFFER_WIDTH
           col == i % BUFFER_WIDTH
       IN  buffer' =
             IF start_pc % 2 = 0
             THEN [buffer EXCEPT ![row][col].ascii_character = HELLO[i + 1]]
             ELSE [buffer EXCEPT ![row][col].color_code = HELLO_ATTRIBUTE]
    /\ start_pc' = start_pc + 1
    /\ UNCHANGED <<column_position, color_code, panicked, call_vars, print_vars,
                   printed, scrolled>>

\* The whole program: _start, and one caller of the print path running
\* between its steps.
NextProgram ==
    \/ StartStore
    \/ \E job \in PrintJobs : Call(Normal, job)
    \/ Deref(Normal)
    \/ Construct(Normal)
    \/ Lock(Normal)
    \/ NextByte(Normal)
    \/ EnterWriteByte(Normal)
    \/ ScrollRow(Normal)
    \/ ClearRow(Normal)
    \/ Store(Normal)
    \/ Advance(Normal)
    \/ Unlock(Normal)

SpecProgram == InitPrint /\ [][NextProgram]_vars

\* ---------------------------------------------------------------------------
\* C11  Callers that never re-enter the print path while holding the lock
\* cannot deadlock on it. The lock is free whenever no print call is in
\* progress; a caller that holds the lock finishes its bounded writer steps
\* and returns, releasing it; whenever a caller is spinning on a held lock the
\* lock is eventually released; and whenever a caller is waiting for the lock
\* some waiting caller eventually acquires it.
InPrint(p) == pc[p] # "idle"

Spinning(p) == pc[p] = "lock"

JustAcquired(p) == pc[p] = "next_byte" /\ loc[p].f = 1 /\ loc[p].i = 1

C11_FreeWhenQuiet == (\A p \in Callers : ~InPrint(p)) => ~locked

C11_NoDeadlock ==
    /\ [](C11_FreeWhenQuiet)
    /\ \A p \in Callers : Holding(p) ~> ~InPrint(p)
    /\ (\E p \in Callers : Spinning(p) /\ locked) ~> ~locked
    /\ (\E p \in Callers : Spinning(p)) ~> (\E q \in Callers : JustAcquired(q))

\* a caller spins on the lock while the other is about to release it
C11_Witness ==
    \E p, q \in Callers :
        /\ p # q
        /\ Spinning(p)
        /\ pc[q] = "unlock"
        /\ locked

\* ---------------------------------------------------------------------------
\* C12  Exclusive ownership of the display memory: across the whole program,
\* entry point included, every step that changes the grid is a step of a
\* caller that holds the lock of the one Writer; nothing else stores to the
\* grid.
C12_OnlyWriterStores ==
    [][buffer' # buffer =>
         /\ \E p \in Callers : Holding(p) /\ pc'[p] # pc[p]
         /\ start_pc' = start_pc]_vars

\* ---------------------------------------------------------------------------
\* C13  For every pair of the sixteen colours the attribute byte is
\* (background << 4) | foreground: its low nibble is the foreground code, its
\* high nibble the background code, it fits in eight bits, no other pair
\* gives the same byte, and Yellow on Black gives 0x0e.
C13_Encoding ==
    op.name = "ColorCode_new" =>
        LET foreground == op.s[1]
            background == op.s[2]
        IN  /\ color_code = background * 16 + foreground
            /\ color_code % 16 = foreground
            /\ color_code \div 16 = background
            /\ color_code \in 0 .. 255
            /\ \A f \in Colors : \A b \in Colors :
                   ColorCode_new(f, b) = color_code => f = foreground /\ b = background
            /\ (foreground = Yellow /\ background = Black) => color_code = 14

\* the encoding of a pair whose two colours differ and are both non-zero
C13_Witness ==
    /\ op.name = "ColorCode_new"
    /\ op.s = <<Yellow, 1>>
    /\ color_code = 30

\* ---------------------------------------------------------------------------
\* C14  The formatted-print path never fails: whatever bytes a print call is
\* given, every write_str returns Ok after forwarding to write_string, so the
\* result _print unwraps is Ok and no panic is reached.
C14_PrintNeverFails ==
    /\ panicked = FALSE
    /\ \A p \in Callers : loc[p].res = "Ok"

\* a call given a byte outside the supported range has written the
\* placeholder and is about to unwrap its result
C14_Witness ==
    \E p \in Callers :
        /\ pc[p] = "unlock"
        /\ loc[p].job = << <<127>> >>
        /\ \E c \in Cols :
               buffer[BUFFER_HEIGHT - 1][c].ascii_character = PLACEHOLDER

\* ---------------------------------------------------------------------------
\* C15  write_string with the empty string is a no-op: every cell of the
\* grid, the cursor column and the attribute are as before the call, and no
\* scroll is performed, also when a wrap is pending.
C15_EmptyString ==
    (op.name = "write_string" /\ op.s = <<>>) =>
        /\ buffer = old.buffer
        /\ column_position = old.column_position
        /\ color_code = old.color_code
        /\ scrolls = 0
        /\ forwarded = <<>>

\* the empty string written while the bottom row is full
C15_Witness ==
    /\ op.name = "write_string"
    /\ op.s = <<>>
    /\ old.column_position = BUFFER_WIDTH
    /\ column_position = BUFFER_WIDTH

\* ---------------------------------------------------------------------------
\* C16  A string of L >= 1 printable bytes without newline, written by
\* write_string from cursor column 0, causes exactly (L - 1) \div 80 scrolls.
\* Afterwards the cursor column is L - 80 * ((L - 1) \div 80), row 24 starts
\* with the last cursor-column bytes of the string, and each earlier chunk of
\* 80 bytes is in a row of its own directly above, in order, as far as the
\* 25 rows reach.
ScrollsOf(s) == (Len(s) - 1) \div BUFFER_WIDTH

WrittenFromZero ==
    /\ op.name = "write_string"
    /\ old.column_position = 0
    /\ Len(op.s) >= 1
    /\ PrintableString(op.s)

ChunksInPlace ==
    LET k == ScrollsOf(op.s)
    IN  /\ scrolls = k
        /\ column_position = Len(op.s) - BUFFER_WIDTH * k
        /\ \A c \in Cols : c < column_position =>
               buffer[BUFFER_HEIGHT - 1][c] =
                   ScreenChar(op.s[BUFFER_WIDTH * k + c + 1], color_code)
        /\ \A j \in 1..k : (BUFFER_HEIGHT - 2 - k + j) \in Rows =>
               \A c \in Cols :
                   buffer[BUFFER_HEIGHT - 2 - k + j][c] =
                       ScreenChar(op.s[BUFFER_WIDTH * (j - 1) + c + 1], color_code)

\* C16 as stated: the rest of row 24 is blank, whatever L
C16_RestBlank ==
    WrittenFromZero =>
        /\ ChunksInPlace
        /\ \A c \in Cols : c >= column_position =>
               buffer[BUFFER_HEIGHT - 1][c] = Blank(color_code)

\* C16 amended: the rest of row 24 is blank when the string caused a scroll
\* (L > 80) and holds the row's prior cells when it did not (L <= 80)
C16_RestBlankAfterScroll ==
    WrittenFromZero =>
        /\ ChunksInPlace
        /\ \A c \in Cols : c >= column_position =>
               buffer[BUFFER_HEIGHT - 1][c] =
                   IF ScrollsOf(op.s) > 0 THEN Blank(color_code)
                   ELSE old.buffer[BUFFER_HEIGHT - 1][c]

\* a string one byte longer than the grid: 25 scrolls, its first chunk gone
C16_Witness ==
    /\ WrittenFromZero
    /\ Len(op.s) = BUFFER_HEIGHT * BUFFER_WIDTH + 1
    /\ scrolls = BUFFER_HEIGHT
    /\ column_position = 1
    /\ buffer[0][0] = ScreenChar(op.s[BUFFER_WIDTH + 1], color_code)

\* ---------------------------------------------------------------------------
\* C17  The global Writer is constructed exactly once, on first access,
\* whatever the interleaving of the first accesses: at most one caller is
\* ever constructing, the cell goes INCOMPLETE -> RUNNING -> COMPLETE and
\* never back, the attribute is set by that one construction only, no caller
\* reaches the lock or the Writer before the construction is complete, and
\* the first caller to take the lock finds cursor column 0 and the attribute
\* Yellow on Black.
C17_Constructed ==
    /\ Cardinality({p \in Callers : pc[p] = "construct"}) <= 1
    /\ \A p \in Callers : pc[p] = "construct" => once = "RUNNING"
    /\ \A p \in Callers : (Spinning(p) \/ Holding(p)) => once = "COMPLETE"
    /\ once = "COMPLETE" => color_code = Yellow + 16 * Black
    /\ \A p \in Callers : (JustAcquired(p) /\ Len(printed) = 1) =>
           column_position = 0 /\ color_code = Yellow + 16 * Black

C17_OnceOnly ==
    /\ once' # once =>
           \/ once = "INCOMPLETE" /\ once' = "RUNNING"
           \/ once = "RUNNING" /\ once' = "COMPLETE"
    /\ color_code' # color_code => (once = "RUNNING" /\ once' = "COMPLETE")

C17_ConstructedOnce == [](C17_Constructed) /\ [][C17_OnceOnly]_vars

\* both callers made their first access together: one is constructing, the
\* other waits at the cell
C17_Witness ==
    \E p, q \in Callers :
        /\ pc[p] = "construct"
        /\ pc[q] = "deref"
        /\ once = "RUNNING"

\* ---------------------------------------------------------------------------
\* C18  A newline written when the row is exactly full causes one scroll, not
\* two: 80 printable bytes from cursor column 0 followed by a newline scroll
\* exactly once in total, leaving the 80 bytes in row 23, row 24 blank and
\* the cursor at column 0. The same holds when the newline is written by a
\* later call that finds the cursor at column 80.
FullRowThenNewline(s) ==
    /\ Len(s) = BUFFER_WIDTH + 1
    /\ PrintableString(SubSeq(s, 1, BUFFER_WIDTH))
    /\ s[BUFFER_WIDTH + 1] = NEWLINE

C18_OneScroll ==
    /\ (/\ op.name = "write_string"
        /\ old.column_position = 0
        /\ FullRowThenNewline(op.s)) =>
            /\ scrolls = 1
            /\ \A c \in Cols :
                   buffer[BUFFER_HEIGHT - 2][c] = ScreenChar(op.s[c + 1], color_code)
            /\ buffer[BUFFER_HEIGHT - 1] = BlankRow(color_code)
            /\ column_position = 0
    /\ (/\ old.column_position = BUFFER_WIDTH
        /\ \/ op.name = "write_byte" /\ op.byte = NEWLINE
           \/ op.name = "write_string" /\ op.s = <<NEWLINE>>) =>
            /\ scrolls = 1
            /\ buffer[BUFFER_HEIGHT - 2] = old.buffer[BUFFER_HEIGHT - 1]
            /\ buffer[BUFFER_HEIGHT - 1] = BlankRow(color_code)
            /\ column_position = 0

\* the full row and its newline written by one call
C18_Witness ==
    /\ op.name = "write_string"
    /\ old.column_position = 0
    /\ FullRowThenNewline(op.s)
    /\ scrolls = 1
    /\ column_position = 0

\* ---------------------------------------------------------------------------
\* C19  A whole print call is atomic with respect to other print calls: the
\* lock is held across every write_str fragment of the call, the bytes of two
\* calls never interleave, and grid and cursor are those of running the same
\* calls one after the other in some order - the order in which they took
\* the lock.

\* write_str on the Writer: write_string
write_str(self, s) == write_string(self, s)

\* write_fmt over the first n fragments of a text, in order
RECURSIVE write_fmt_upto(_, _, _)
write_fmt_upto(self, job, n) ==
    IF self.panicked \/ n = 0 THEN self
    ELSE write_str(write_fmt_upto(self, job, n - 1), job[n])

\* the first n texts of jobs printed one after the other, each as a whole
RECURSIVE SerialRun(_, _, _)
SerialRun(self, jobs, n) ==
    IF self.panicked \/ n = 0 THEN self
    ELSE write_fmt_upto(SerialRun(self, jobs, n - 1), jobs[n], Len(jobs[n]))

\* the Writer as constructed, on the grid the run started with
Constructed ==
    [column_position |-> 0, color_code |-> ColorCode_new(Yellow, Black),
     buffer |-> old.buffer, panicked |-> FALSE, scrolls |-> 0, forwarded |-> <<>>]

SameDisplay(w) ==
    /\ buffer = w.buffer
    /\ column_position = w.column_position
    /\ color_code = w.color_code

C19_Serial ==
    /\ (once = "COMPLETE" /\ \A p \in Callers : ~Holding(p)) =>
           SameDisplay(SerialRun(Constructed, printed, Len(printed)))
    /\ \A p \in Callers : pc[p] \in {"next_byte", "unlock"} =>
           LET l      == loc[p]
               before == SerialRun(Constructed, printed, Len(printed) - 1)
               whole  == write_fmt_upto(before, l.job, l.f - 1)
           IN  /\ locked
               /\ printed[Len(printed)] = l.job
               /\ SameDisplay(IF l.f > Len(l.job) THEN whole
                              ELSE write_str(whole, SubSeq(l.job[l.f], 1, l.i - 1)))

\* both callers have printed, the one whose text has two fragments first
C19_Witness ==
    /\ \A p \in Callers : pc[p] = "idle" /\ prints[p] = 1
    /\ Len(printed) = 2
    /\ Len(printed[1]) = 2
    /\ printed[2] = << <<97, 98>> >>
    /\ buffer[BUFFER_HEIGHT - 1][1].ascii_character = 98

\* ---------------------------------------------------------------------------
\* C20  Once the Writer has scrolled at least once, in every state between
\* operations every cell of row 24 at or right of the cursor column is a
\* space in the current attribute, and every cell of row 24 left of the
\* cursor column carries the current attribute.
C20_BottomRow ==
    scrolled =>
        \A c \in Cols :
            IF c >= column_position
            THEN buffer[BUFFER_HEIGHT - 1][c] = Blank(color_code)
            ELSE buffer[BUFFER_HEIGHT - 1][c].color_code = color_code

\* after a scroll a byte has been written into the bottom row, which is
\* neither empty nor full
C20_Witness ==
    /\ scrolled
    /\ nops = MaxOps
    /\ column_position > 0
    /\ column_position < BUFFER_WIDTH
    /\ old.column_position < column_position
    /\ buffer[BUFFER_HEIGHT - 1][0].ascii_character # SPACE

====
